---- MODULE Spec2Model ----
(***************************************************************************)
(* Model of the concurrent crawl engine of webcrawler (package webcrawler, *)
(* the version with the Fetcher interface): Crawl, crawlPage, parseHTML,   *)
(* the semaphore channel sem, the WaitGroup c.wg and the visitedPages map  *)
(* with its mutex.  A goroutine is a record of the sequence tasks; a *Page *)
(* is an index into the heap pages.  Strings are sequences of one-letter   *)
(* strings so that TrimSpace, HasPrefix and concatenation are computed.    *)
(***************************************************************************)
EXTENDS Integers, Sequences, FiniteSets, TLC

(***************************************************************************)
(* Bounds and constants.                                                   *)
(***************************************************************************)
\* const maxOutstanding = 256: capacity of the channel sem.
maxOutstanding == 256

\* Largest Gate capacity explored; the model runs every capacity 1..MaxGate.
MaxGate == 2

Min(a, b) == IF a < b THEN a ELSE b

Capacities == 1..Min(MaxGate, maxOutstanding)

\* nil *Page
NIL == 0

(***************************************************************************)
(* Strings.                                                                *)
(***************************************************************************)
WhiteSpace == {" ", "\n"}

\* strings.HasPrefix(s, prefix)
HasPrefix(s, prefix) ==
    /\ Len(prefix) <= Len(s)
    /\ SubSeq(s, 1, Len(prefix)) = prefix

RECURSIVE TrimLeft(_)
TrimLeft(s) ==
    IF s # <<>> /\ Head(s) \in WhiteSpace THEN TrimLeft(Tail(s)) ELSE s

RECURSIVE TrimRight(_)
TrimRight(s) ==
    IF s # <<>> /\ s[Len(s)] \in WhiteSpace
    THEN TrimRight(SubSeq(s, 1, Len(s) - 1))
    ELSE s

\* strings.TrimSpace(s)
TrimSpace(s) == TrimRight(TrimLeft(s))

(***************************************************************************)
(* html.Node trees.                                                        *)
(***************************************************************************)
Attr(key, val) == [Key |-> key, Val |-> val]

ElementNode(data, attr, children) ==
    [Type |-> "ElementNode", Data |-> data, Attr |-> attr, Children |-> children]

TextNode == [Type |-> "TextNode", Data |-> "text", Attr |-> <<>>, Children |-> <<>>]

DocumentNode(children) ==
    [Type |-> "DocumentNode", Data |-> "", Attr |-> <<>>, Children |-> children]

\* The nodes in the order parseHTML visits them: the node itself, then each
\* child subtree from FirstChild along NextSibling.
RECURSIVE DocOrder(_)
RECURSIVE DocOrderAll(_)
DocOrder(node) == <<node>> \o DocOrderAll(node.Children)

DocOrderAll(children) ==
    IF children = <<>> THEN <<>>
    ELSE DocOrder(Head(children)) \o DocOrderAll(Tail(children))

\* Values of the attributes of attr whose key is key, in attribute order.
RECURSIVE AttrVals(_, _)
AttrVals(attr, key) ==
    IF attr = <<>> THEN <<>>
    ELSE (IF Head(attr).Key = key THEN <<Head(attr).Val>> ELSE <<>>)
         \o AttrVals(Tail(attr), key)

(***************************************************************************)
(* Sites: what the Fetcher returns.  A site maps a URL to the set of       *)
(* results a Fetch of it may produce (one result when the Fetcher is       *)
(* deterministic).  A result is an error or a content; a content either    *)
(* parses to a node tree or makes html.Parse fail.                         *)
(***************************************************************************)
D == <<"d">>

U(path) == D \o <<"/">> \o path

FetchError == [err |-> TRUE, parses |-> FALSE, root |-> TextNode]

\* Content whose well-formed part is root but on which html.Parse fails.
Unparsable(root) == [err |-> FALSE, parses |-> FALSE, root |-> root]

Content(root) == [err |-> FALSE, parses |-> TRUE, root |-> root]

A(href) == ElementNode("a", <<Attr("href", href)>>, <<TextNode>>)

EmptyDoc ==
    DocumentNode(<<ElementNode("html", <<>>,
        <<ElementNode("head", <<>>, <<>>), ElementNode("body", <<>>, <<>>)>>)>>)

\* A seed with three same-domain anchors (relative, padded, absolute); page
\* /a links on to /e, which the seed does not link.
FanDoc ==
    ElementNode("body", <<>>,
        << A(<<"/", "a">>), A(<<" ", "/", "b", "\n">>), A(<<"d", "/", "c">>) >>)

SiteFan ==
    [u \in {D, U(<<"a">>), U(<<"b">>), U(<<"c">>), U(<<"e">>)} |->
        IF u = D THEN {Content(FanDoc)}
        ELSE IF u = U(<<"a">>)
             THEN {Content(ElementNode("body", <<>>, <<A(<<"/", "e">>)>>))}
        ELSE {Content(EmptyDoc)}]

\* The scenario of TestCrawler, with a repeated image and a link element
\* carrying two href attributes.
AssetsDoc ==
    ElementNode("html", <<>>,
        << ElementNode("head", <<>>,
              <<ElementNode("link", <<Attr("rel", <<"s">>), Attr("href", <<"c", "s", "s">>)>>, <<>>)>>),
           ElementNode("body", <<>>,
              << A(<<"d", "/", "t">>),
                 ElementNode("img", <<Attr("src", <<"p", "n", "g">>), Attr("alt", <<"e">>)>>, <<>>),
                 ElementNode("script", <<Attr("src", <<"j", "s">>)>>, <<>>),
                 ElementNode("img", <<Attr("src", <<"p", "n", "g">>)>>, <<>>),
                 ElementNode("link", <<Attr("href", <<"x">>), Attr("href", <<"y">>)>>, <<>>) >>) >>)

SiteAssets ==
    [u \in {D, U(<<"t">>)} |->
        IF u = D THEN {Content(AssetsDoc)} ELSE {Content(EmptyDoc)}]

\* Anchors: one without href, one with two hrefs, one to another host, one
\* whose URL merely starts with the seed string, one back to the seed.
AnchorsDoc ==
    ElementNode("body", <<>>,
        << ElementNode("a", <<Attr("name", <<"n">>)>>, <<>>),
           ElementNode("a", <<Attr("class", <<"k">>), Attr("href", <<"/", "a">>),
                              Attr("href", <<"/", "z">>)>>, <<>>),
           A(<<"x", "/", "o">>),
           A(<<"d", "x">>),
           ElementNode("p", <<Attr("href", <<"/", "p">>)>>, <<A(D)>>) >>)

SiteAnchors ==
    [u \in {D, U(<<"a">>), U(<<"z">>), D \o <<"x">>, <<"x", "/", "o">>} |->
        IF u = D THEN {Content(AnchorsDoc)} ELSE {Content(EmptyDoc)}]

\* A Fetcher that may fail: each Fetch of the seed URL yields the document,
\* an error, or content that does not parse.
FlakyDoc ==
    ElementNode("body", <<>>,
        << A(<<"/", "a">>),
           ElementNode("img", <<Attr("src", <<"p">>)>>, <<>>),
           A(<<"/", "b">>) >>)

SiteFlaky ==
    [u \in {D, U(<<"a">>), U(<<"b">>)} |->
        IF u = D THEN {Content(FlakyDoc), FetchError, Unparsable(FlakyDoc)}
        ELSE {Content(EmptyDoc)}]

\* The seed cannot be fetched at all.
SiteDown == [u \in {D} |-> {FetchError}]

Sites == {SiteFan, SiteAssets, SiteAnchors, SiteFlaky, SiteDown}

(***************************************************************************)
(* State.                                                                  *)
(***************************************************************************)
VARIABLES
    site,              \* the Fetcher's behaviour for this run
    capacity,          \* cap(sem)
    sem,               \* number of tokens in the channel sem
    domain,            \* c.domain
    wg,                \* counter of c.wg
    visitedPages,      \* c.visitedPages: URL -> *Page
    visitedPagesLock,  \* c.visitedPagesLock: 0 when free, else the holder
    pages,             \* heap of Page objects, indexed by pointer
    tasks,             \* the crawlPage goroutines
    crawlPC,           \* position of the Crawl call: "init", "wait", "returned"
    str                \* the call stack and results of Page.String()

\* The state of the crawl.
crawlVars == <<site, capacity, sem, domain, wg, visitedPages, visitedPagesLock,
               pages, tasks, crawlPC>>

vars == <<site, capacity, sem, domain, wg, visitedPages, visitedPagesLock,
          pages, tasks, crawlPC, str>>

\* &Page{URL: url}
Page(url) == [URL |-> url, Fail |-> FALSE, Links |-> <<>>, StaticAssets |-> <<>>]

\* var link Link
Link == [Page |-> NIL, CyclicPage |-> FALSE]

NoContent == [err |-> FALSE, parses |-> FALSE, root |-> TextNode]

\* A goroutine started by "go crawlPage(c, page)", before its first statement.
\* root is the tree html.Parse returned, nodes the order parseHTML visits its
\* nodes in and idx the position of the traversal in that order; fetched is
\* the sequence of URLs the goroutine has passed to Fetch.
crawlPage(page) ==
    [page |-> page, pc |-> "acquire", fetched |-> <<>>, r |-> NoContent,
     root |-> TextNode, nodes |-> <<>>, idx |-> 0, linkURL |-> <<>>,
     ok |-> TRUE, link |-> Link]

Tasks == DOMAIN tasks

\* No call of Page.String() has been made.  stack holds one frame per active
\* call: the page p, the position i in p.Links and the string links built so
\* far; calls lists the pages in the order String was entered for them; ret
\* is the value returned by the outermost call.
NoString == [stack |-> <<>>, calls |-> <<>>, ret |-> <<>>, done |-> FALSE]

\* init(): the channel is filled with its capacity of tokens.
Init ==
    /\ site \in Sites
    /\ capacity \in Capacities
    /\ sem = capacity
    /\ domain = <<>>
    /\ wg = 0
    /\ visitedPages = <<>>
    /\ visitedPagesLock = 0
    /\ pages = <<>>
    /\ tasks = <<>>
    /\ crawlPC = "init"
    /\ str = NoString

(***************************************************************************)
(* Crawl.                                                                  *)
(***************************************************************************)
\* Crawl without c.visitedPages[url] = p.
CrawlNoRegister(url) ==
    /\ crawlPC = "init"
    /\ domain' = url
    /\ wg' = wg + 1
    /\ pages' = Append(pages, Page(url))
    /\ tasks' = Append(tasks, crawlPage(Len(pages) + 1))
    /\ crawlPC' = "wait"
    /\ UNCHANGED <<str, site, capacity, sem, visitedPages, visitedPagesLock>>

\* Crawl up to the start of c.wg.Wait(): nothing else runs before the go
\* statement, so the four statements are one step.
Crawl(url) ==
    /\ crawlPC = "init"
    /\ domain' = url
    /\ wg' = wg + 1
    /\ pages' = Append(pages, Page(url))
    /\ visitedPages' = (url :> (Len(pages) + 1))
    /\ tasks' = Append(tasks, crawlPage(Len(pages) + 1))
    /\ crawlPC' = "wait"
    /\ UNCHANGED <<str, site, capacity, sem, visitedPagesLock>>

\* CrawlReturn without c.wg.Wait().
CrawlReturnNoWait ==
    /\ crawlPC = "wait"
    /\ crawlPC' = "returned"
    /\ UNCHANGED <<str, site, capacity, sem, domain, wg, visitedPages,
                   visitedPagesLock, pages, tasks>>

\* c.wg.Wait() returns and Crawl returns p.
CrawlReturn ==
    /\ crawlPC = "wait"
    /\ wg = 0
    /\ crawlPC' = "returned"
    /\ UNCHANGED <<str, site, capacity, sem, domain, wg, visitedPages,
                   visitedPagesLock, pages, tasks>>

(***************************************************************************)
(* crawlPage.                                                              *)
(***************************************************************************)
\* Acquire without waiting for a token.
AcquireNoWait(t) ==
    /\ tasks[t].pc = "acquire"
    /\ sem' = sem - 1
    /\ tasks' = [tasks EXCEPT ![t].pc = "fetch"]
    /\ UNCHANGED <<str, site, capacity, domain, wg, visitedPages, visitedPagesLock,
                   pages, crawlPC>>

\* <-sem
Acquire(t) ==
    /\ tasks[t].pc = "acquire"
    /\ sem > 0
    /\ sem' = sem - 1
    /\ tasks' = [tasks EXCEPT ![t].pc = "fetch"]
    /\ UNCHANGED <<str, site, capacity, domain, wg, visitedPages, visitedPagesLock,
                   pages, crawlPC>>

\* The argument crawlPage passes to c.fetcher.Fetch.
FetchArg(t) == domain

\* Fetcher.Fetch(url): the results the Fetcher may produce for url.
FetcherFetch(url) ==
    IF url \in DOMAIN site THEN site[url] ELSE {Content(EmptyDoc)}

\* Fetch whose error path sets Fail on the page Crawl returns instead of the
\* goroutine's page.
FetchFailRoot(t) ==
    /\ tasks[t].pc = "fetch"
    /\ \E r \in FetcherFetch(FetchArg(t)) :
         IF r.err
         THEN /\ pages' = [pages EXCEPT ![1].Fail = TRUE]
              /\ tasks' = [tasks EXCEPT ![t].pc = "release",
                                        ![t].fetched = Append(@, FetchArg(t))]
         ELSE /\ tasks' = [tasks EXCEPT ![t].pc = "htmlparse", ![t].r = r,
                                        ![t].fetched = Append(@, FetchArg(t))]
              /\ UNCHANGED pages
    /\ UNCHANGED <<str, site, capacity, sem, domain, wg, visitedPages,
                   visitedPagesLock, crawlPC>>

\* Fetch whose error path ends the goroutine without running the deferred
\* function.
FetchNoDefer(t) ==
    /\ tasks[t].pc = "fetch"
    /\ \E r \in FetcherFetch(FetchArg(t)) :
         IF r.err
         THEN /\ pages' = [pages EXCEPT ![tasks[t].page].Fail = TRUE]
              /\ tasks' = [tasks EXCEPT ![t].pc = "finished",
                                        ![t].fetched = Append(@, FetchArg(t))]
         ELSE /\ tasks' = [tasks EXCEPT ![t].pc = "htmlparse", ![t].r = r,
                                        ![t].fetched = Append(@, FetchArg(t))]
              /\ UNCHANGED pages
    /\ UNCHANGED <<str, site, capacity, sem, domain, wg, visitedPages,
                   visitedPagesLock, crawlPC>>

\* r, err := c.fetcher.Fetch(...); on error page.Fail = true and return.
Fetch(t) ==
    /\ tasks[t].pc = "fetch"
    /\ \E r \in FetcherFetch(FetchArg(t)) :
         IF r.err
         THEN /\ pages' = [pages EXCEPT ![tasks[t].page].Fail = TRUE]
              /\ tasks' = [tasks EXCEPT ![t].pc = "release",
                                        ![t].fetched = Append(@, FetchArg(t))]
         ELSE /\ tasks' = [tasks EXCEPT ![t].pc = "htmlparse", ![t].r = r,
                                        ![t].fetched = Append(@, FetchArg(t))]
              /\ UNCHANGED pages
    /\ UNCHANGED <<str, site, capacity, sem, domain, wg, visitedPages,
                   visitedPagesLock, crawlPC>>

\* Parse whose error path skips sem <- 1.
ParseNoRelease(t) ==
    /\ tasks[t].pc = "htmlparse"
    /\ IF ~tasks[t].r.parses
       THEN /\ pages' = [pages EXCEPT ![tasks[t].page].Fail = TRUE]
            /\ tasks' = [tasks EXCEPT ![t].pc = "done", ![t].r = NoContent]
       ELSE /\ tasks' = [tasks EXCEPT ![t].pc = "parse", ![t].r = NoContent,
                                      ![t].root = tasks[t].r.root,
                                      ![t].nodes = DocOrder(tasks[t].r.root),
                                      ![t].idx = 1]
            /\ UNCHANGED pages
    /\ UNCHANGED <<str, site, capacity, sem, domain, wg, visitedPages,
                   visitedPagesLock, crawlPC>>

\* Parse without the return after page.Fail = true: the tree built so far
\* is still traversed.
ParseKeepGoing(t) ==
    /\ tasks[t].pc = "htmlparse"
    /\ pages' = [pages EXCEPT ![tasks[t].page].Fail = ~tasks[t].r.parses]
    /\ tasks' = [tasks EXCEPT ![t].pc = "parse", ![t].r = NoContent,
                              ![t].root = tasks[t].r.root,
                              ![t].nodes = DocOrder(tasks[t].r.root),
                              ![t].idx = 1]
    /\ UNCHANGED <<str, site, capacity, sem, domain, wg, visitedPages,
                   visitedPagesLock, crawlPC>>

\* root, err := html.Parse(r); on error page.Fail = true and return.
Parse(t) ==
    /\ tasks[t].pc = "htmlparse"
    /\ IF ~tasks[t].r.parses
       THEN /\ pages' = [pages EXCEPT ![tasks[t].page].Fail = TRUE]
            /\ tasks' = [tasks EXCEPT ![t].pc = "release", ![t].r = NoContent]
       ELSE /\ tasks' = [tasks EXCEPT ![t].pc = "parse", ![t].r = NoContent,
                                      ![t].root = tasks[t].r.root,
                                      ![t].nodes = DocOrder(tasks[t].r.root),
                                      ![t].idx = 1]
            /\ UNCHANGED pages
    /\ UNCHANGED <<str, site, capacity, sem, domain, wg, visitedPages,
                   visitedPagesLock, crawlPC>>

(***************************************************************************)
(* parseHTML.                                                              *)
(***************************************************************************)
\* The node parseHTML is at.
Node(task) == task.nodes[task.idx]

\* parseHTML moves on to the next node in document order, or returns to
\* crawlPage when the tree is exhausted; the anchor's locals go out of scope.
NextNode(task) ==
    IF task.idx = Len(task.nodes)
    THEN [task EXCEPT !.pc = "release", !.linkURL = <<>>, !.ok = TRUE, !.link = Link]
    ELSE [task EXCEPT !.pc = "parse", !.idx = @ + 1,
                      !.linkURL = <<>>, !.ok = TRUE, !.link = Link]

\* linkURL of the first href attribute: trimmed, and prefixed with the domain
\* when it starts with "/".
LinkURL(val) ==
    IF HasPrefix(TrimSpace(val), <<"/">>) THEN domain \o TrimSpace(val)
    ELSE TrimSpace(val)

\* NodeAssets stopping at the first matching attribute, as the anchor case
\* does with its break.
NodeAssetsFirstOnly(node) ==
    IF node.Type # "ElementNode" THEN <<>>
    ELSE IF node.Data = "link" /\ AttrVals(node.Attr, "href") # <<>>
         THEN <<AttrVals(node.Attr, "href")[1]>>
    ELSE IF node.Data \in {"img", "script"} /\ AttrVals(node.Attr, "src") # <<>>
         THEN <<AttrVals(node.Attr, "src")[1]>>
    ELSE <<>>

\* The values parseHTML appends to page.StaticAssets for one node.
NodeAssets(node) ==
    IF node.Type # "ElementNode" THEN <<>>
    ELSE IF node.Data = "link" THEN AttrVals(node.Attr, "href")
    ELSE IF node.Data \in {"img", "script"} THEN AttrVals(node.Attr, "src")
    ELSE <<>>

\* Registers without the strings.HasPrefix(linkURL, c.domain) test.
RegistersAny(node) ==
    /\ node.Type = "ElementNode"
    /\ node.Data = "a"
    /\ AttrVals(node.Attr, "href") # <<>>

\* Whether the anchor's first href is a same-domain URL, so that parseHTML
\* goes on to the registry.
Registers(node) ==
    /\ node.Type = "ElementNode"
    /\ node.Data = "a"
    /\ AttrVals(node.Attr, "href") # <<>>
    /\ HasPrefix(LinkURL(AttrVals(node.Attr, "href")[1]), domain)

\* One node of the traversal, up to c.visitedPagesLock.Lock() for a
\* same-domain anchor and to the end of the switch otherwise.
parseHTML(t) ==
    /\ tasks[t].pc = "parse"
    /\ LET node == Node(tasks[t]) IN
         IF Registers(node)
         THEN /\ tasks' = [tasks EXCEPT ![t].pc = "lock",
                              ![t].linkURL = LinkURL(AttrVals(node.Attr, "href")[1])]
              /\ UNCHANGED pages
         ELSE /\ pages' = [pages EXCEPT ![tasks[t].page].StaticAssets =
                                            @ \o NodeAssets(node)]
              /\ tasks' = [tasks EXCEPT ![t] = NextNode(@)]
    /\ UNCHANGED <<str, site, capacity, sem, domain, wg, visitedPages,
                   visitedPagesLock, crawlPC>>

\* Lock that does not exclude other holders.
LockNoWait(t) ==
    /\ tasks[t].pc = "lock"
    /\ visitedPagesLock' = t
    /\ tasks' = [tasks EXCEPT ![t].pc = "check"]
    /\ UNCHANGED <<str, site, capacity, sem, domain, wg, visitedPages, pages, crawlPC>>

\* c.visitedPagesLock.Lock()
Lock(t) ==
    /\ tasks[t].pc = "lock"
    /\ visitedPagesLock = 0
    /\ visitedPagesLock' = t
    /\ tasks' = [tasks EXCEPT ![t].pc = "check"]
    /\ UNCHANGED <<str, site, capacity, sem, domain, wg, visitedPages, pages, crawlPC>>

\* _, ok = c.visitedPages[linkURL]; when present the link is made cyclic and
\* points at the page being parsed.
CheckVisited(t) ==
    /\ tasks[t].pc = "check"
    /\ IF tasks[t].linkURL \in DOMAIN visitedPages
       THEN tasks' = [tasks EXCEPT ![t].pc = "unlock", ![t].ok = TRUE,
                         ![t].link = [Page |-> tasks[t].page, CyclicPage |-> TRUE]]
       ELSE tasks' = [tasks EXCEPT ![t].pc = "insert", ![t].ok = FALSE]
    /\ UNCHANGED <<str, site, capacity, sem, domain, wg, visitedPages,
                   visitedPagesLock, pages, crawlPC>>

\* InsertPage storing into a fresh map instead of c.visitedPages.
InsertPageFreshMap(t) ==
    /\ tasks[t].pc = "insert"
    /\ pages' = Append(pages, Page(tasks[t].linkURL))
    /\ visitedPages' = (tasks[t].linkURL :> (Len(pages) + 1))
    /\ tasks' = [tasks EXCEPT ![t].pc = "unlock",
                    ![t].link = [Page |-> Len(pages) + 1, CyclicPage |-> FALSE]]
    /\ UNCHANGED <<str, site, capacity, sem, domain, wg, visitedPagesLock, crawlPC>>

\* link.Page = &Page{URL: linkURL}; c.visitedPages[linkURL] = link.Page
InsertPage(t) ==
    /\ tasks[t].pc = "insert"
    /\ pages' = Append(pages, Page(tasks[t].linkURL))
    /\ visitedPages' =
         [u \in DOMAIN visitedPages \cup {tasks[t].linkURL} |->
            IF u = tasks[t].linkURL THEN Len(pages) + 1 ELSE visitedPages[u]]
    /\ tasks' = [tasks EXCEPT ![t].pc = "unlock",
                    ![t].link = [Page |-> Len(pages) + 1, CyclicPage |-> FALSE]]
    /\ UNCHANGED <<str, site, capacity, sem, domain, wg, visitedPagesLock, crawlPC>>

\* c.visitedPagesLock.Unlock(), then the test of !ok and the break.
Unlock(t) ==
    /\ tasks[t].pc = "unlock"
    /\ visitedPagesLock' = 0
    /\ tasks' = [tasks EXCEPT ![t] =
                    IF ~tasks[t].ok THEN [@ EXCEPT !.pc = "append"] ELSE NextNode(@)]
    /\ UNCHANGED <<str, site, capacity, sem, domain, wg, visitedPages, pages, crawlPC>>

\* AppendLink without c.wg.Add(1).
AppendLinkNoAdd(t) ==
    /\ tasks[t].pc = "append"
    /\ pages' = [pages EXCEPT ![tasks[t].page].Links = Append(@, tasks[t].link)]
    /\ tasks' = [tasks EXCEPT ![t].pc = "go"]
    /\ UNCHANGED <<str, site, capacity, sem, domain, wg, visitedPages,
                   visitedPagesLock, crawlPC>>

\* AppendLink that appends the link to the page the link points at.
AppendLinkToTarget(t) ==
    /\ tasks[t].pc = "append"
    /\ pages' = [pages EXCEPT ![tasks[t].link.Page].Links = Append(@, tasks[t].link)]
    /\ wg' = wg + 1
    /\ tasks' = [tasks EXCEPT ![t].pc = "go"]
    /\ UNCHANGED <<str, site, capacity, sem, domain, visitedPages, visitedPagesLock,
                   crawlPC>>

\* page.Links = append(page.Links, link); c.wg.Add(1)
AppendLink(t) ==
    /\ tasks[t].pc = "append"
    /\ pages' = [pages EXCEPT ![tasks[t].page].Links = Append(@, tasks[t].link)]
    /\ wg' = wg + 1
    /\ tasks' = [tasks EXCEPT ![t].pc = "go"]
    /\ UNCHANGED <<str, site, capacity, sem, domain, visitedPages, visitedPagesLock,
                   crawlPC>>

\* go crawlPage(c, link.Page)
GoCrawlPage(t) ==
    /\ tasks[t].pc = "go"
    /\ tasks' = Append([tasks EXCEPT ![t] = NextNode(@)],
                       crawlPage(tasks[t].link.Page))
    /\ UNCHANGED <<str, site, capacity, sem, domain, wg, visitedPages,
                   visitedPagesLock, pages, crawlPC>>

(***************************************************************************)
(* The deferred function of crawlPage.                                     *)
(***************************************************************************)
\* sem <- 1
Release(t) ==
    /\ tasks[t].pc = "release"
    /\ sem < capacity
    /\ sem' = sem + 1
    /\ tasks' = [tasks EXCEPT ![t].pc = "done"]
    /\ UNCHANGED <<str, site, capacity, domain, wg, visitedPages, visitedPagesLock,
                   pages, crawlPC>>

\* Done called only on the success path, not deferred.
DoneUnlessFail(t) ==
    /\ tasks[t].pc = "done"
    /\ wg' = IF pages[tasks[t].page].Fail THEN wg ELSE wg - 1
    /\ tasks' = [tasks EXCEPT ![t].pc = "finished"]
    /\ UNCHANGED <<str, site, capacity, sem, domain, visitedPages, visitedPagesLock,
                   pages, crawlPC>>

\* c.wg.Done(), after which the goroutine ends.
Done(t) ==
    /\ tasks[t].pc = "done"
    /\ wg' = wg - 1
    /\ tasks' = [tasks EXCEPT ![t].pc = "finished"]
    /\ UNCHANGED <<str, site, capacity, sem, domain, visitedPages, visitedPagesLock,
                   pages, crawlPC>>

\* One step of goroutine t.
TaskStep(t) ==
    \/ Acquire(t)
    \/ Fetch(t)
    \/ Parse(t)
    \/ parseHTML(t)
    \/ Lock(t)
    \/ CheckVisited(t)
    \/ InsertPage(t)
    \/ Unlock(t)
    \/ AppendLink(t)
    \/ GoCrawlPage(t)
    \/ Release(t)
    \/ Done(t)

Next ==
    \/ Crawl(D)
    \/ CrawlReturn
    \/ \E t \in Tasks : Acquire(t)
    \/ \E t \in Tasks : Fetch(t)
    \/ \E t \in Tasks : Parse(t)
    \/ \E t \in Tasks : parseHTML(t)
    \/ \E t \in Tasks : Lock(t)
    \/ \E t \in Tasks : CheckVisited(t)
    \/ \E t \in Tasks : InsertPage(t)
    \/ \E t \in Tasks : Unlock(t)
    \/ \E t \in Tasks : AppendLink(t)
    \/ \E t \in Tasks : GoCrawlPage(t)
    \/ \E t \in Tasks : Release(t)
    \/ \E t \in Tasks : Done(t)

Spec == Init /\ [][Next]_vars

\* The Go scheduler does not stop while a goroutine can run: some runnable
\* crawlPage goroutine eventually takes a step, and so does the caller.
FairSpec ==
    /\ Spec
    /\ WF_vars(\E t \in Tasks : TaskStep(t))
    /\ WF_vars(CrawlReturn)
    /\ WF_vars(Crawl(D))

(***************************************************************************)
(* Page.String().  A string is a sequence of tokens: a newline, a piece of *)
(* fixed text, a URL or an asset.  The recursion of String is an explicit  *)
(* call stack, one step per link of the page on top.                       *)
(***************************************************************************)
\* Deepest recursion of Page.String() explored.
MaxDepth == 4

NL == [k |-> "nl", v |-> <<>>]

Txt(t) == [k |-> "txt", v |-> <<t>>]

Val(u) == [k |-> "val", v |-> u]

\* strings.Replace(s, "\n", "\n    ", -1)
RECURSIVE Indent(_)
Indent(s) ==
    IF s = <<>> THEN <<>>
    ELSE (IF Head(s) = NL THEN <<NL, Txt("    ")>> ELSE <<Head(s)>>)
         \o Indent(Tail(s))

\* The loop over p.StaticAssets: one line per asset, joined by newlines.
RECURSIVE StaticAssetsStr(_)
StaticAssetsStr(assets) ==
    IF assets = <<>> THEN <<>>
    ELSE LET rest == StaticAssetsStr(SubSeq(assets, 1, Len(assets) - 1))
         IN (IF rest # <<>> THEN rest \o <<NL>> ELSE <<>>)
            \o <<Txt("  StaticAsset:  "), Val(assets[Len(assets)])>>

\* links += fmt.Sprintf("  Links in current page: %s", linkPage), after the
\* separating newline.
AddLink(links, linkPage) ==
    (IF links # <<>> THEN links \o <<NL>> ELSE <<>>)
    \o <<Txt("  Links in current page: ")>> \o linkPage

\* pageStr as assembled at the end of String from the page and its links.
PageStr(page, links) ==
    (IF page.Fail
     THEN <<NL, Txt("Page: "), Val(page.URL), Txt(" (Failed to get this URL)"), NL>>
     ELSE <<NL, Txt("Page: "), Val(page.URL), NL>>)
    \o (IF StaticAssetsStr(page.StaticAssets) # <<>>
        THEN <<NL>> \o StaticAssetsStr(page.StaticAssets) \o <<NL>> ELSE <<>>)
    \o (IF links # <<>> THEN <<NL>> \o links \o <<NL>> ELSE <<>>)

Frame(p) == [p |-> p, i |-> 1, links |-> <<>>]

Top == str.stack[Len(str.stack)]

\* The link the call on top of the stack is at.
TopLink == pages[Top.p].Links[Top.i]

\* fmt.Println(webcrawler.Crawl(v)): String is called on the returned page.
String(p) ==
    /\ crawlPC = "returned"
    /\ str = NoString
    /\ p \in DOMAIN pages
    /\ str' = [str EXCEPT !.stack = <<Frame(p)>>, !.calls = <<p>>]
    /\ UNCHANGED crawlVars

\* StringLink expanding every link that has a page, marked cyclic or not.
StringLinkExpandAll ==
    /\ str.stack # <<>>
    /\ Top.i <= Len(pages[Top.p].Links)
    /\ IF TopLink.Page = NIL
       THEN str' = [str EXCEPT !.stack[Len(str.stack)] =
                        [@ EXCEPT !.i = @ + 1, !.links = AddLink(@, <<>>)]]
       ELSE /\ Len(str.stack) < MaxDepth
            /\ str' = [str EXCEPT !.stack = Append(@, Frame(TopLink.Page)),
                                  !.calls = Append(@, TopLink.Page)]
    /\ UNCHANGED crawlVars

\* One iteration of the loop over p.Links: a link without page adds an empty
\* entry, a cyclic link adds the URL of its page, any other link calls
\* link.Page.String().
StringLink ==
    /\ str.stack # <<>>
    /\ Top.i <= Len(pages[Top.p].Links)
    /\ IF TopLink.Page = NIL
       THEN str' = [str EXCEPT !.stack[Len(str.stack)] =
                        [@ EXCEPT !.i = @ + 1, !.links = AddLink(@, <<>>)]]
       ELSE IF TopLink.CyclicPage
       THEN str' = [str EXCEPT !.stack[Len(str.stack)] =
                        [@ EXCEPT !.i = @ + 1,
                                  !.links = AddLink(@,
                                      <<NL, Txt("    Page: "),
                                        Val(pages[TopLink.Page].URL)>>)]]
       ELSE /\ Len(str.stack) < MaxDepth
            /\ str' = [str EXCEPT !.stack = Append(@, Frame(TopLink.Page)),
                                  !.calls = Append(@, TopLink.Page)]
    /\ UNCHANGED crawlVars

\* The loop is over: the call on top returns pageStr, which its caller
\* indents and adds to its links, or which is the result of the whole call.
StringReturn ==
    /\ str.stack # <<>>
    /\ Top.i > Len(pages[Top.p].Links)
    /\ LET pageStr == PageStr(pages[Top.p], Top.links)
           n == Len(str.stack)
       IN IF n = 1
          THEN str' = [str EXCEPT !.stack = <<>>, !.ret = pageStr, !.done = TRUE]
          ELSE str' = [str EXCEPT
                         !.stack = [SubSeq(@, 1, n - 1) EXCEPT ![n - 1] =
                                       [@ EXCEPT !.i = @ + 1,
                                                 !.links = AddLink(@, Indent(pageStr))]]]
    /\ UNCHANGED crawlVars

(***************************************************************************)
(* Page values built by hand, as TestCrawler builds its expected Page, on  *)
(* which String is called: trees, graphs whose links back to a page seen   *)
(* before are marked CyclicPage, and graphs with such links left unmarked. *)
(***************************************************************************)
L(p) == [Page |-> p, CyclicPage |-> FALSE]

Back(p) == [Page |-> p, CyclicPage |-> TRUE]

P(url, fail, links, assets) ==
    [URL |-> url, Fail |-> fail, Links |-> links, StaticAssets |-> assets]

\* Most links of a page in the generated graphs.
MaxLinks == 2

\* Sequences over S of length at most n.
RECURSIVE SeqsUpTo(_, _)
SeqsUpTo(S, n) ==
    IF n = 0 THEN {<<>>}
    ELSE SeqsUpTo(S, n - 1)
         \cup {Append(q, x) : q \in {r \in SeqsUpTo(S, n - 1) : Len(r) = n - 1}, x \in S}

\* Every graph of two pages, the second failed, whose pages have at most
\* MaxLinks links each: without page, to either page, marked or not.
TwoPageGraphs ==
    {<< P(D, FALSE, l1, << <<"c">> >>), P(U(<<"a">>), TRUE, l2, <<>>) >> :
        l1, l2 \in SeqsUpTo({Link, L(1), L(2), Back(1), Back(2)}, MaxLinks)}

\* Graphs of three pages.
ThreePageGraphs ==
    { \* the expected Page of TestCrawler
      << P(D, FALSE, <<L(2)>>, << <<"c">>, <<"p">>, <<"j">> >>),
         P(U(<<"t">>), FALSE, <<>>, << <<"c">>, <<"p">> >>) >>,
      \* a failed child, a link without page
      << P(D, FALSE, <<L(2), Link, L(3)>>, <<>>),
         P(U(<<"a">>), TRUE, <<>>, <<>>),
         P(U(<<"b">>), FALSE, <<Link>>, << <<"c">> >>) >>,
      \* a page that links to itself, marked
      << P(D, FALSE, <<Back(1)>>, <<>>) >>,
      \* a cycle of two pages and a self link, all marked
      << P(D, FALSE, <<L(2), Back(1)>>, <<>>),
         P(U(<<"a">>), FALSE, <<Back(1), Back(2)>>, << <<"c">> >>) >>,
      \* a cycle of three pages closed by a marked link, siblings marked
      << P(D, FALSE, <<L(2), L(3)>>, <<>>),
         P(U(<<"a">>), FALSE, <<Back(3)>>, <<>>),
         P(U(<<"b">>), FALSE, <<Back(2), Back(1)>>, <<>>) >>,
      \* a page that links to itself, unmarked
      << P(D, FALSE, <<L(1)>>, <<>>) >>,
      \* a cycle of two pages, unmarked
      << P(D, FALSE, <<L(2)>>, <<>>),
         P(U(<<"a">>), FALSE, <<L(1)>>, <<>>) >>,
      \* no cycle, but two unmarked links to the same page
      << P(D, FALSE, <<L(2), L(3)>>, <<>>),
         P(U(<<"a">>), FALSE, <<L(3)>>, <<>>),
         P(U(<<"b">>), FALSE, <<>>, <<>>) >> }

RenderGraphs == TwoPageGraphs \cup ThreePageGraphs

StringInit ==
    /\ pages \in RenderGraphs
    /\ site = SiteDown
    /\ capacity = 1
    /\ sem = 1
    /\ domain = D
    /\ wg = 0
    /\ visitedPages = <<>>
    /\ visitedPagesLock = 0
    /\ tasks = <<>>
    /\ crawlPC = "returned"
    /\ str = NoString

StringNext ==
    \/ String(1)
    \/ StringLink
    \/ StringReturn

\* String runs to its end unless it runs out of stack.
StringSpec == StringInit /\ [][StringNext]_vars /\ WF_vars(StringNext)

(***************************************************************************)
(* Derived notions used by the properties.                                 *)
(***************************************************************************)
\* Goroutines that have received from sem and not yet sent back.
InFlight ==
    {t \in Tasks : tasks[t].pc \notin {"acquire", "done", "finished"}}

\* Goroutines whose traversal of the parsed tree is complete.
Traversed ==
    {t \in Tasks : /\ tasks[t].pc \in {"release", "done", "finished"}
                   /\ tasks[t].idx > 0}

\* Goroutines between the registry check and the end of the anchor's handling.
PastCheck ==
    {t \in Tasks : tasks[t].pc \in {"insert", "unlock", "append", "go"}}

\* The static assets of a node tree, by structural recursion: the node's own
\* link href / img src / script src values, then those of each child subtree.
RECURSIVE TreeAssets(_)
RECURSIVE ForestAssets(_)
TreeAssets(node) ==
    (IF node.Type = "ElementNode" /\ node.Data = "link"
        THEN AttrVals(node.Attr, "href")
     ELSE IF node.Type = "ElementNode" /\ node.Data \in {"img", "script"}
        THEN AttrVals(node.Attr, "src")
     ELSE <<>>) \o ForestAssets(node.Children)

ForestAssets(children) ==
    IF children = <<>> THEN <<>>
    ELSE TreeAssets(Head(children)) \o ForestAssets(Tail(children))

IsPrefix(s, w) == Len(s) <= Len(w) /\ SubSeq(w, 1, Len(s)) = s

(***************************************************************************)
(* C1: at most capacity goroutines hold a Gate slot (are between <-sem and *)
(* sem <- 1), however many pages the site has.                             *)
(***************************************************************************)
C1_GateBound == Cardinality(InFlight) <= capacity

\* The Gate is full, a goroutine waits for a slot, and the site has more
\* pages than slots.
C1_Witness ==
    /\ Cardinality(InFlight) = capacity
    /\ \E t \in Tasks : tasks[t].pc = "acquire"
    /\ Cardinality(DOMAIN visitedPages) > capacity

(***************************************************************************)
(* C2: when Crawl has returned, every goroutine started during the run     *)
(* has finished; none is pending, running or about to start a child.       *)
(***************************************************************************)
C2_ReturnAfterAll ==
    crawlPC = "returned" => \A t \in Tasks : tasks[t].pc = "finished"

\* Crawl has returned from a run that started child goroutines.
C2_Witness ==
    /\ crawlPC = "returned"
    /\ Len(tasks) >= 3

(***************************************************************************)
(* C3: every Registry entry leads to a Page whose URL is the entry's key,  *)
(* and a registered entry is never removed nor bound to another Page.      *)
(***************************************************************************)
RegistryKeyed ==
    \A u \in DOMAIN visitedPages :
        /\ visitedPages[u] \in DOMAIN pages
        /\ pages[visitedPages[u]].URL = u

RegistryStable ==
    \A u \in DOMAIN visitedPages :
        /\ u \in DOMAIN visitedPages'
        /\ visitedPages'[u] = visitedPages[u]
        /\ pages'[visitedPages[u]].URL = u

C3_RegistryEntries == [](RegistryKeyed) /\ [][RegistryStable]_vars

\* The Registry holds several pages and a goroutine has just found one of
\* them present.
C3_Witness ==
    /\ Cardinality(DOMAIN visitedPages) >= 3
    /\ \E t \in Tasks : tasks[t].pc = "unlock" /\ tasks[t].ok

(***************************************************************************)
(* C4: of the goroutines that check-and-insert the same unregistered URL,  *)
(* exactly one creates the Page and the others find it present: no URL     *)
(* ever has two Page objects, the creator's Page is the registered one, and*)
(* "present" is only observed of a registered URL.                         *)
(***************************************************************************)
C4_OneCreator ==
    /\ \A i, j \in DOMAIN pages : pages[i].URL = pages[j].URL => i = j
    /\ \A t \in PastCheck :
         /\ tasks[t].ok => tasks[t].linkURL \in DOMAIN visitedPages
         /\ (~tasks[t].ok /\ tasks[t].pc # "insert") =>
               /\ tasks[t].linkURL \in DOMAIN visitedPages
               /\ visitedPages[tasks[t].linkURL] = tasks[t].link.Page
    /\ \A t1, t2 \in PastCheck :
         (t1 # t2 /\ tasks[t1].linkURL = tasks[t2].linkURL) =>
            (tasks[t1].ok \/ tasks[t2].ok)

\* Two goroutines are handling an anchor to the same URL at once: one has
\* created the Page and not yet started its task, the other has found it
\* present.
C4_Witness ==
    \E t1, t2 \in Tasks :
        /\ t1 # t2
        /\ tasks[t1].linkURL = tasks[t2].linkURL
        /\ tasks[t1].pc \in {"append", "go"}
        /\ ~tasks[t1].ok
        /\ tasks[t2].pc = "unlock"
        /\ tasks[t2].ok

(***************************************************************************)
(* The site graph: same-domain anchors of the documents the Fetcher serves.*)
(***************************************************************************)
\* URLs the same-domain anchors of a node tree resolve to.
TreeLinks(root) ==
    {LinkURL(AttrVals(DocOrder(root)[i].Attr, "href")[1]) :
        i \in {j \in DOMAIN DocOrder(root) : Registers(DocOrder(root)[j])}}

\* URLs the page at u links to.
SiteLinks(u) ==
    UNION {TreeLinks(r.root) : r \in {x \in FetcherFetch(u) : x.parses}}

\* URLs reachable from the URLs of S through same-domain anchors.
RECURSIVE Reachable(_)
Reachable(S) ==
    LET T == S \cup UNION {SiteLinks(u) : u \in S}
    IN IF T = S THEN S ELSE Reachable(T)

\* The non-cyclic Links, as <<page, index>>, whose target has URL u.
Expansions(u) ==
    {pi \in UNION {{<<p, i>> : i \in DOMAIN pages[p].Links} : p \in DOMAIN pages} :
        LET link == pages[pi[1]].Links[pi[2]]
        IN /\ link.Page # NIL
           /\ ~link.CyclicPage
           /\ pages[link.Page].URL = u}

(***************************************************************************)
(* C5: when Crawl returns and no page failed, every URL reachable from the *)
(* seed through same-domain anchors has exactly one Page, registered, and  *)
(* is expanded exactly once: the seed by Crawl itself, any other URL as    *)
(* the target of exactly one non-cyclic Link.                              *)
(***************************************************************************)
C5_ReachableExpandedOnce ==
    (crawlPC = "returned" /\ \A p \in DOMAIN pages : ~pages[p].Fail) =>
        \A u \in Reachable({domain}) :
            /\ u \in DOMAIN visitedPages
            /\ Cardinality({p \in DOMAIN pages : pages[p].URL = u}) = 1
            /\ Cardinality(Expansions(u)) = (IF u = domain THEN 0 ELSE 1)

(***************************************************************************)
(* C6: under fair scheduling every crawl completes: all goroutines finish, *)
(* the WaitGroup counter is back at zero and Crawl has returned.           *)
(***************************************************************************)
C6_Terminates ==
    <>(/\ crawlPC = "returned"
       /\ wg = 0
       /\ \A t \in Tasks : tasks[t].pc = "finished")

\* A crawl with more goroutines than Gate slots, one of which failed, has
\* completed.
C6_Witness ==
    /\ crawlPC = "returned"
    /\ capacity < Len(tasks)
    /\ \E p \in DOMAIN pages : pages[p].Fail
    /\ \E p \in DOMAIN pages : ~pages[p].Fail

(***************************************************************************)
(* C7: a Page with Fail set has no Links and no StaticAssets, and keeps    *)
(* Fail set and both sequences empty for the rest of the run.              *)
(***************************************************************************)
FailEmpty ==
    \A p \in DOMAIN pages :
        pages[p].Fail => pages[p].Links = <<>> /\ pages[p].StaticAssets = <<>>

FailStays ==
    \A p \in DOMAIN pages :
        pages[p].Fail =>
            /\ pages'[p].Fail
            /\ pages'[p].Links = <<>>
            /\ pages'[p].StaticAssets = <<>>

C7_FailedPageEmpty == [](FailEmpty) /\ [][FailStays]_vars

\* The seed could not be fetched and Crawl has returned its Page, Fail set.
C7_Witness ==
    /\ site = SiteDown
    /\ crawlPC = "returned"
    /\ pages[1].URL = domain
    /\ pages[1].Fail

(***************************************************************************)
(* C8: for every anchor whose same-domain URL was already registered, the  *)
(* page being parsed gains a Link with CyclicPage set, and no goroutine is *)
(* started: after the traversal the page has one cyclic Link per           *)
(* same-domain anchor that did not create its target, and no Page is       *)
(* crawled by two goroutines.                                              *)
(***************************************************************************)
SameDomainAnchors(root) ==
    {i \in DOMAIN DocOrder(root) : Registers(DocOrder(root)[i])}

CyclicLinks(p) == {i \in DOMAIN pages[p].Links : pages[p].Links[i].CyclicPage}

CreatedLinks(p) ==
    {i \in DOMAIN pages[p].Links :
        pages[p].Links[i].Page # NIL /\ ~pages[p].Links[i].CyclicPage}

C8_CyclicLinkAppended ==
    /\ \A t \in Traversed :
         Cardinality(CyclicLinks(tasks[t].page)) =
            Cardinality(SameDomainAnchors(tasks[t].root))
               - Cardinality(CreatedLinks(tasks[t].page))
    /\ \A t1, t2 \in Tasks : tasks[t1].page = tasks[t2].page => t1 = t2

(***************************************************************************)
(* C9: for every anchor element without an href attribute, the page being  *)
(* parsed gains a Link whose Page is nil: after the traversal the page has *)
(* one such Link per href-less anchor.                                     *)
(***************************************************************************)
BareAnchors(root) ==
    {i \in DOMAIN DocOrder(root) :
        /\ DocOrder(root)[i].Type = "ElementNode"
        /\ DocOrder(root)[i].Data = "a"
        /\ AttrVals(DocOrder(root)[i].Attr, "href") = <<>>}

NilLinks(p) == {i \in DOMAIN pages[p].Links : pages[p].Links[i].Page = NIL}

C9_PlaceholderLink ==
    \A t \in Traversed :
        Cardinality(NilLinks(tasks[t].page)) = Cardinality(BareAnchors(tasks[t].root))

(***************************************************************************)
(* C10: the StaticAssets of a parsed page are the link href and img/script *)
(* src values of the parsed tree in depth-first document order, duplicates *)
(* kept: a prefix of them during the traversal, all of them after it.      *)
(***************************************************************************)
C10_StaticAssetsInOrder ==
    \A t \in Tasks :
        tasks[t].idx > 0 =>
            /\ IsPrefix(pages[tasks[t].page].StaticAssets, TreeAssets(tasks[t].root))
            /\ t \in Traversed =>
                 pages[tasks[t].page].StaticAssets = TreeAssets(tasks[t].root)

\* A traversal has collected a stylesheet, an image, a script, the image
\* again and both hrefs of one link element.
C10_Witness ==
    \E t \in Traversed :
        pages[tasks[t].page].StaticAssets =
            << <<"c", "s", "s">>, <<"p", "n", "g">>, <<"j", "s">>,
               <<"p", "n", "g">>, <<"x">>, <<"y">> >>

(***************************************************************************)
(* C11: String terminates and enters no page twice on every page graph in  *)
(* which the links to a page seen before are marked CyclicPage, so that    *)
(* the unmarked links form a tree below the rendered page; cycles and self *)
(* links included.                                                         *)
(***************************************************************************)
\* The unmarked links, as <<page, index>>, whose target is q.
Unmarked(q) ==
    {pi \in UNION {{<<p, i>> : i \in DOMAIN pages[p].Links} : p \in DOMAIN pages} :
        /\ pages[pi[1]].Links[pi[2]].Page = q
        /\ ~pages[pi[1]].Links[pi[2]].CyclicPage}

\* Every page is the target of at most one unmarked link, the rendered page
\* of none.
CyclesMarked ==
    \A q \in DOMAIN pages :
        Cardinality(Unmarked(q)) <= (IF q = 1 THEN 0 ELSE 1)

\* The pages the links of the pages of S lead to, marked or not.
Targets(S) ==
    UNION {{pages[p].Links[i].Page : i \in DOMAIN pages[p].Links} : p \in S} \ {NIL}

RECURSIVE Closure(_)
Closure(S) == IF Targets(S) \subseteq S THEN S ELSE Closure(S \cup Targets(S))

\* Some page reachable from the rendered page leads back to itself.
HasCycle ==
    \E p \in Closure({1}) : p \in Closure(Targets({p}))

\* String was entered at most once for each page.
NoReexpansion ==
    \A i, j \in DOMAIN str.calls : str.calls[i] = str.calls[j] => i = j

Fetched == {t \in Tasks : tasks[t].pc \notin {"acquire", "fetch"}}

C12_FetchOwnURL ==
    /\ \A t \in Fetched : tasks[t].fetched = <<pages[tasks[t].page].URL>>
    /\ \A t1, t2 \in Fetched :
         tasks[t1].fetched = tasks[t2].fetched => t1 = t2

(***************************************************************************)
(* C13: at most one goroutine is ever started per URL.  The page of every  *)
(* goroutine is the registered Page of its URL from the moment it exists   *)
(* (the seed's included), and a goroutine about to start another one is    *)
(* the one that found the URL absent and registered the Page, for which no *)
(* goroutine exists yet.                                                   *)
(***************************************************************************)
C13_OneTaskPerURL ==
    /\ \A t1, t2 \in Tasks :
         pages[tasks[t1].page].URL = pages[tasks[t2].page].URL => t1 = t2
    /\ \A t \in Tasks :
         /\ pages[tasks[t].page].URL \in DOMAIN visitedPages
         /\ visitedPages[pages[tasks[t].page].URL] = tasks[t].page
    /\ \A t \in Tasks :
         tasks[t].pc \in {"append", "go"} =>
            /\ ~tasks[t].ok
            /\ pages[tasks[t].link.Page].URL = tasks[t].linkURL
            /\ visitedPages[tasks[t].linkURL] = tasks[t].link.Page
            /\ \A t2 \in Tasks : tasks[t2].page # tasks[t].link.Page

\* A goroutine has met an anchor back to the seed and found it registered,
\* while other goroutines exist.
C13_Witness ==
    /\ Len(tasks) >= 2
    /\ \E t \in Tasks :
         /\ tasks[t].pc = "unlock"
         /\ tasks[t].ok
         /\ tasks[t].linkURL = domain

(***************************************************************************)
(* C14: the WaitGroup counter is never negative and equals the number of   *)
(* goroutines not yet finished plus the goroutines announced by            *)
(* c.wg.Add(1) whose go statement is still to run; when Crawl returns it   *)
(* is zero and every goroutine started has finished.                       *)
(***************************************************************************)
Unfinished == {t \in Tasks : tasks[t].pc # "finished"}

\* Goroutines between c.wg.Add(1) and go crawlPage.
Announcing == {t \in Tasks : tasks[t].pc = "go"}

C14_TrackerCounts ==
    /\ wg >= 0
    /\ crawlPC # "init" => wg = Cardinality(Unfinished) + Cardinality(Announcing)
    /\ crawlPC = "returned" => wg = 0 /\ Unfinished = {}

\* A goroutine whose fetch failed has finished while another goroutine has
\* announced a child it has not started yet.
C14_Witness ==
    /\ \E t \in Tasks : tasks[t].pc = "finished" /\ pages[tasks[t].page].Fail
    /\ Announcing # {}
    /\ wg >= 2

(***************************************************************************)
(* C15: Gate slots are conserved: the tokens in sem plus the goroutines    *)
(* holding one make up the capacity; a goroutine holding a slot has not    *)
(* yet decremented the WaitGroup, so when Crawl returns every slot is back *)
(* in sem, also after fetch and parse failures.                            *)
(***************************************************************************)
C15_SlotsConserved ==
    /\ sem >= 0
    /\ sem + Cardinality(InFlight) = capacity
    /\ wg >= Cardinality(InFlight)
    /\ crawlPC = "returned" => sem = capacity

\* Crawl has returned from a run with more goroutines than slots in which a
\* fetch or parse failed, and a goroutine that parsed its page to the end.
C15_Witness ==
    /\ crawlPC = "returned"
    /\ Len(tasks) > capacity
    /\ \E t \in Tasks : pages[tasks[t].page].Fail
    /\ \E t \in Tasks : t \in Traversed

(***************************************************************************)
(* C16: a failure is local.  Fail is set on a page only by a step of that  *)
(* page's own goroutine, at its fetch or parse, which changes no other     *)
(* goroutine; a failed page has no links, hence no children; and whatever  *)
(* fails, Crawl returns with every registered page handled to the end by   *)
(* its own goroutine: failed itself, or its tree traversed.                *)
(***************************************************************************)
FailIsOwn ==
    \A p \in DOMAIN pages :
        (~pages[p].Fail /\ pages'[p].Fail) =>
            \E t \in Tasks :
                /\ tasks[t].page = p
                /\ tasks[t].pc \in {"fetch", "htmlparse"}
                /\ tasks'[t].pc = "release"
                /\ \A t2 \in Tasks \ {t} : tasks'[t2] = tasks[t2]
                /\ \A q \in DOMAIN pages \ {p} : pages'[q] = pages[q]

FailedHasNoChild ==
    \A p \in DOMAIN pages : pages[p].Fail => CreatedLinks(p) = {}

EveryPageHandled ==
    /\ crawlPC = "returned"
    /\ \A u \in DOMAIN visitedPages :
         \E t \in Tasks :
            /\ tasks[t].page = visitedPages[u]
            /\ tasks[t].pc = "finished"
            /\ pages[tasks[t].page].Fail \/ t \in Traversed

C16_FailureLocal ==
    /\ [][FailIsOwn]_vars
    /\ [](FailedHasNoChild)
    /\ <>(EveryPageHandled)

\* Crawl has returned: the seed was parsed to the end, one of its children
\* failed and another was parsed to the end.
C16_Witness ==
    /\ crawlPC = "returned"
    /\ 1 \in Traversed
    /\ \E t \in Tasks \ {1} : pages[tasks[t].page].Fail
    /\ \E t \in Tasks \ {1} : t \in Traversed

(***************************************************************************)
(* C17: in every step, a Page whose Fail, Links or StaticAssets change is  *)
(* the page of exactly one goroutine, and that goroutine is the one taking *)
(* the step; the pages of all other goroutines, and the pages no goroutine *)
(* was started for yet, stay as they are.                                  *)
(***************************************************************************)
Owners(p) == {t \in Tasks : tasks[t].page = p}

Stepping == {t \in Tasks : tasks'[t] # tasks[t]}

C17_OwnerWrites ==
    [][\A p \in DOMAIN pages :
          pages'[p] # pages[p] =>
              /\ pages'[p].URL = pages[p].URL
              /\ Cardinality(Owners(p)) = 1
              /\ Stepping = Owners(p)]_vars

\* Two goroutines are inside parseHTML at once and each has already written
\* static assets to its own page.
C17_Witness ==
    \E t1, t2 \in Tasks :
        /\ t1 # t2
        /\ tasks[t1].pc = "parse"
        /\ tasks[t2].pc = "parse"
        /\ pages[tasks[t1].page].StaticAssets # <<>>
        /\ pages[tasks[t2].page].StaticAssets # <<>>

(***************************************************************************)
(* C18: every URL of the registry starts with the domain root, and so does *)
(* every URL of a Page, of a Link and of a Fetch call; the URL an anchor   *)
(* yields (first href, trimmed, prefixed with the root when it starts with *)
(* "/") that does not start with the root appears in none of them.         *)
(***************************************************************************)
RegisteredURLs == DOMAIN visitedPages

PageURLs == {pages[p].URL : p \in DOMAIN pages}

LinkedURLs ==
    UNION {{pages[pages[p].Links[i].Page].URL :
              i \in {j \in DOMAIN pages[p].Links : pages[p].Links[j].Page # NIL}} :
           p \in DOMAIN pages}

FetchedURLs ==
    UNION {{tasks[t].fetched[i] : i \in DOMAIN tasks[t].fetched} : t \in Tasks}

\* The URLs of the anchors a goroutine has gone past that lie outside the
\* domain root.
ForeignURLs ==
    UNION {{LinkURL(AttrVals(tasks[t].nodes[i].Attr, "href")[1]) :
              i \in {j \in DOMAIN tasks[t].nodes :
                       /\ j < tasks[t].idx \/ t \in Traversed
                       /\ tasks[t].nodes[j].Type = "ElementNode"
                       /\ tasks[t].nodes[j].Data = "a"
                       /\ AttrVals(tasks[t].nodes[j].Attr, "href") # <<>>
                       /\ ~IsPrefix(domain,
                              LinkURL(AttrVals(tasks[t].nodes[j].Attr, "href")[1]))}} :
           t \in Tasks}

C18_RegistryInDomain ==
    /\ \A u \in RegisteredURLs \cup PageURLs \cup LinkedURLs \cup FetchedURLs :
          IsPrefix(domain, u)
    /\ ForeignURLs \cap
          (RegisteredURLs \cup PageURLs \cup LinkedURLs \cup FetchedURLs) = {}

\* Crawl has returned from a site whose seed page has an anchor out of the
\* domain, and a URL that merely starts with the root's letters is registered.
C18_Witness ==
    /\ crawlPC = "returned"
    /\ ForeignURLs # {}
    /\ \E u \in RegisteredURLs : u # domain /\ ~IsPrefix(domain \o <<"/">>, u)

(***************************************************************************)
(* C19: with a Fetcher that has one answer per URL, the registry's URLs    *)
(* and every page's Fail and StaticAssets when Crawl returns are the       *)
(* values computed below from the Fetcher alone, whatever the schedule     *)
(* was.  Which page holds the non-cyclic Link to a page is left open.      *)
(***************************************************************************)
Deterministic == \A u \in DOMAIN site : Cardinality(site[u]) = 1

\* What the goroutine of the page with URL u is served: crawlPage calls
\* Fetch(c.domain) for every page.
ServedFor(u) == CHOOSE r \in FetcherFetch(domain) : TRUE

ExpandsTo(u) ==
    IF ServedFor(u).parses THEN TreeLinks(ServedFor(u).root) ELSE {}

RECURSIVE FinalRegistry(_)
FinalRegistry(S) ==
    LET T == S \cup UNION {ExpandsTo(u) : u \in S}
    IN IF T = S THEN S ELSE FinalRegistry(T)

FinalFail(u) == ~ServedFor(u).parses

FinalStaticAssets(u) ==
    IF ServedFor(u).parses THEN TreeAssets(ServedFor(u).root) ELSE <<>>

C19_ScheduleIndependent ==
    (crawlPC = "returned" /\ Deterministic) =>
        /\ DOMAIN visitedPages = FinalRegistry({domain})
        /\ \A u \in DOMAIN visitedPages :
              /\ pages[visitedPages[u]].Fail = FinalFail(u)
              /\ pages[visitedPages[u]].StaticAssets = FinalStaticAssets(u)

\* Crawl has returned from a deterministic site, and a page other than the
\* seed holds the non-cyclic Link to some page, which only happens when its
\* goroutine reached the anchor before the seed's did.
C19_Witness ==
    /\ crawlPC = "returned"
    /\ Deterministic
    /\ Cardinality(DOMAIN visitedPages) >= 3
    /\ \E p \in DOMAIN pages \ {1} : CreatedLinks(p) # {}

====
